---- MODULE Spec2Model ----
(***************************************************************************)
(* Job orchestration layer of the transcript tool.                         *)
(*                                                                         *)
(* Spec: one job of the in-process web service (web.py): its TaskState     *)
(* record in TASKS, its TaskControl events, the pool worker running        *)
(* _run_transcription_task, the progress-simulation thread, and the        *)
(* requests served by the event loop (pause, resume, status).  The async   *)
(* handlers contain no await, so at most one request is in flight; the     *)
(* worker and the simulation thread interleave with it at every read and   *)
(* write of a record field.  TASK_LOCK is held only inside _update_task    *)
(* and around TASKS.get; the field reads of _task_payload, of the handlers *)
(* and of _simulate are made without it.                                   *)
(*                                                                         *)
(* SpecStatus: the same job with a client that only polls its status, and  *)
(* the history of the record after each complete _update_task.             *)
(*                                                                         *)
(* SpecJob: one job of the Celery orchestrator (tasks.py transcribe_job):  *)
(* the metadata file, the task's own meta dict, the chunk loop of          *)
(* transcribe_with_cache with pause_check before and progress_callback     *)
(* after every chunk, and external pause and resume of the metadata file.  *)
(*                                                                         *)
(* SpecCache: threads calling ModelCache.get (engine.py) for the compute   *)
(* types of one model name and device, each constructor call returning a   *)
(* new handle or raising.                                                  *)
(*                                                                         *)
(* SpecChunks: the chunk loop of transcribe_with_cache result by result,   *)
(* with its offset, last_end and segment_index; times are integers in one  *)
(* time unit, and collected is kept as its length and its last segment.    *)
(*                                                                         *)
(* SpecSrt: segments_to_srt (utils.py) applied to a list of segments, the  *)
(* document kept as its sequence of lines.                                 *)
(***************************************************************************)
EXTENDS Integers, Sequences, FiniteSets, TLC

VARIABLES
    task,          \* TASKS[task_id]: the TaskState record
    pause_event,   \* TASK_CONTROLS[task_id].pause_event is set
    stop_event,    \* TASK_CONTROLS[task_id].stop_event is set
    lock,          \* holder of TASK_LOCK
    skip_subtitle, \* request option, fixed at submission
    wpc,           \* position of the pool worker in _run_transcription_task
    wq,            \* worker: setattr calls left in its current _update_task
    spc,           \* position of the _simulate thread
    sq,            \* _simulate: setattr calls left in its current _update_task
    sbelow,        \* _simulate: outcome of `state.progress < 80`
    snext,         \* _simulate: next_progress
    rkind,         \* request in flight on the event loop
    rpc,           \* position of that request's handler
    rq,            \* handler: setattr calls left in its current _update_task
    rseen,         \* handler: status value its _update_task replaced
    rread,         \* handler: fields _task_payload has read so far
    resp,          \* the response being returned
    frozen,        \* history: a pause applied to a processing job, not yet resumed
    client,        \* which requests the client of the web service issues
    batches,       \* history: the record after each complete _update_task
    metadata,      \* tasks.py: content of the job's metadata.json
    meta,          \* transcribe_job: its meta dict
    latest,        \* pause_check: the metadata it loaded
    jpc,           \* position of transcribe_job
    total_segments,  \* transcribe_with_cache: len(audio_segments)
    processed_count, \* transcribe_with_cache: chunks transcribed so far
    text_found,    \* transcribe_with_cache: collected holds a segment
    exc,           \* transcribe_job: description of the exception raised
    temp_dir,      \* transcribe_with_cache: temp_dir is bound
    tmp_exists,    \* the directory made by split_audio exists
    written,       \* output files written by assemble_transcript
    models,        \* ModelCache._models, by compute type; 0 is no entry
    cache_lock,    \* holder of ModelCache._lock; 0 is free
    call,          \* per thread: position and locals of ModelCache.get
    chist,         \* history: calls made, handles constructed, fallbacks stored
    loop,          \* locals of the chunk loop of transcribe_with_cache
    lhist,         \* history of the segments the loop collected
    srt,           \* a call of segments_to_srt: its argument and its result
    stamp,         \* a call of format_timestamp: its argument and its result
    TASKS,         \* task_id -> TaskState of every job submitted
    TASK_CONTROLS, \* task_id -> the events of its TaskControl
    EXECUTOR,      \* the pool: the work submitted and where each run is
    disk,          \* task ids with a temporary directory / a subtitle in OUTPUT_DIR
    reply          \* the last request handled and its response

jobvars == <<metadata, meta, latest, jpc, total_segments, processed_count,
             text_found, exc, temp_dir, tmp_exists, written>>

cachevars == <<models, cache_lock, call, chist>>

loopvars == <<loop, lhist>>

enginevars == <<cachevars, loopvars, srt, stamp>>

webvars == <<task, pause_event, stop_event, lock, wpc, wq, spc, sq, sbelow,
             snext, rkind, rpc, rq, rseen, rread, resp, frozen, batches>>

\* the job table, the controls, the pool, the directories and the last reply
tablevars == <<TASKS, TASK_CONTROLS, EXECUTOR, disk, reply>>

vars == <<webvars, jobvars, enginevars, tablevars, skip_subtitle, client>>

(***************************************************************************)
(* TaskState and its values                                                *)
(***************************************************************************)
Statuses == {"queued", "processing", "paused", "completed", "error"}

\* _create_task_state: the record of a freshly submitted job
TaskState ==
    [status |-> "queued", progress |-> 0, message |-> "Task queued",
     paused |-> FALSE, subtitle_file |-> FALSE]

NoResponse == [code |-> 0, body |-> <<>>]

\* the same test with the error status forgotten
FinishedBroken(s) == s = "completed"

\* `state.status in {"completed", "error"}` of pause_task and resume_task
Finished(s) == s \in {"completed", "error"}

\* the keyword arguments of each _update_task call, in call order
StartUpdate ==
    << <<"status", "processing">>, <<"progress", 10>>,
       <<"message", "Processing transcription">>, <<"paused", FALSE>> >>

FinalizingUpdate ==
    << <<"progress", 90>>, <<"message", "Finalizing outputs">> >>

\* the completed update without its progress
CompletedUpdateNoProgress(subtitle_file) ==
    << <<"status", "completed">>,
       <<"message", "Transcription complete">>, <<"paused", FALSE>>,
       <<"subtitle_file", subtitle_file>> >>

CompletedUpdate(subtitle_file) ==
    << <<"status", "completed">>, <<"progress", 100>>,
       <<"message", "Transcription complete">>, <<"paused", FALSE>>,
       <<"subtitle_file", subtitle_file>> >>

ErrorUpdate ==
    << <<"status", "error">>, <<"progress", 100>>, <<"message", "exc">>,
       <<"paused", FALSE>>, <<"subtitle_file", FALSE>> >>

SimulateUpdate(next_progress) ==
    << <<"progress", next_progress>>, <<"message", "Processing...">> >>

PauseUpdate ==
    << <<"status", "paused">>, <<"message", "Paused by user">>,
       <<"paused", TRUE>> >>

ResumeUpdate ==
    << <<"status", "processing">>, <<"message", "Resuming task">>,
       <<"paused", FALSE>> >>

Min(a, b) == IF a < b THEN a ELSE b

\* line 371: min(80, state.progress + 5 if state.progress < 80 else state.progress)
NextProgress(below, progress) ==
    Min(80, IF below THEN progress + 5 ELSE progress)

\* the fields _task_payload reads from the record, in order
PayloadFields ==
    <<"status", "progress", "message", "paused",
      "subtitle_ready", "subtitle_filename", "subtitle_url">>

\* the record field behind each payload entry
PayloadSource(key) ==
    IF key \in {"subtitle_ready", "subtitle_filename", "subtitle_url"}
    THEN "subtitle_file" ELSE key

(***************************************************************************)
(* _update_task: one setattr per step, TASK_LOCK held from the first to    *)
(* the last.  Taking the lock is merged with the first setattr and         *)
(* releasing it with the last.                                             *)
(***************************************************************************)
update_task(who, q) ==
    /\ q # <<>>
    /\ lock = IF lock = who THEN who ELSE "free"
    /\ task' = [task EXCEPT ![Head(q)[1]] = Head(q)[2]]
    /\ lock' = IF Len(q) = 1 THEN "free" ELSE who
    /\ batches' = IF client = "poller" /\ Len(q) = 1
                  THEN batches \cup {task'} ELSE batches

\* the job's metadata.json as written at submission
Metadata ==
    [status |-> "queued", progress |-> 0, message |-> "Task queued",
     subtitle_ready |-> FALSE]

\* a dict not loaded yet
NoMetadata ==
    [status |-> "none", progress |-> 0, message |-> "none",
     subtitle_ready |-> FALSE]

(***************************************************************************)
(* State of the engine library before any of it runs                       *)
(***************************************************************************)
MaxThreads == 2

\* calls of ModelCache.get in one run
MaxCalls == 3

Threads == 1 .. MaxThreads

\* compute types requested for one model name and device
ComputeTypes == {"int8", "float16", "float32"}

\* what WhisperModel(...) raises: an unsupported compute type is a
\* ValueError; other failures are RuntimeError, ValueError or another type
Exceptions ==
    {[type |-> "ValueError", unsupported |-> TRUE],
     [type |-> "ValueError", unsupported |-> FALSE],
     [type |-> "RuntimeError", unsupported |-> FALSE],
     [type |-> "OSError", unsupported |-> FALSE]}

NoException == [type |-> "none", unsupported |-> FALSE]

\* line 43: except (RuntimeError, ValueError)
Caught(e) == e.type \in {"RuntimeError", "ValueError"}

\* a thread outside ModelCache.get
Idle ==
    [pc |-> "idle", compute_type |-> "none", model |-> 0, fallback_model |-> 0,
     exc |-> NoException, returned |-> 0, raised |-> NoException]

InitCache ==
    /\ models = [c \in ComputeTypes |-> 0]
    /\ cache_lock = 0
    /\ call = [t \in Threads |-> Idle]
    /\ chist = [calls |-> 0, made |-> 0,
                built |-> [c \in ComputeTypes |-> 0],
                fell_back |-> [c \in ComputeTypes |-> 0]]


\* a segment not collected yet
NoSegment == [index |-> 0, start |-> 0, end |-> 0, text |-> <<>>]

\* the loop before it starts; collected is kept as its length and its last
\* element
IdleLoop ==
    [pc |-> "idle", segment_length |-> 0, total_segments |-> 0,
     processed_count |-> 0, yielded |-> 0, offset |-> 0, last_end |-> 0,
     segment_index |-> 1, collected_len |-> 0, collected_last |-> NoSegment]

\* history of the loop: the largest end collected from the previous and from
\* the current chunk, the chunk of the last collected segment, the start of
\* the previous result of the current chunk, and whether every result so far
\* had 0 <= start <= end and came in temporal order within its chunk
IdleHistory ==
    [prev_end |-> 0, cur_end |-> 0, from_chunk |-> 0, prev_start |-> 0,
     wellformed |-> TRUE, ordered |-> TRUE]

IdleSrt == [pc |-> "idle", segments |-> <<>>, lines |-> <<>>, result |-> <<>>]

IdleStamp == [pc |-> "idle", seconds |-> 0, result |-> <<>>]

\* no request handled yet
NoReply ==
    [request |-> "none", task_id |-> 0, model |-> "", filename |-> "",
     code |-> 0, detail |-> ""]

\* lines 58-61 and an empty OUTPUT_DIR: the server before any request
EmptyTables ==
    /\ TASKS = <<>>
    /\ TASK_CONTROLS = <<>>
    /\ EXECUTOR = [work |-> <<>>, at |-> <<>>]
    /\ disk = [temp |-> {}, output |-> {}]
    /\ reply = NoReply

InitEngine ==
    /\ InitCache
    /\ loop = IdleLoop
    /\ lhist = IdleHistory
    /\ srt = IdleSrt
    /\ stamp = IdleStamp
    /\ EmptyTables

InitWeb ==
    /\ task = TaskState
    /\ pause_event = TRUE
    /\ stop_event = FALSE
    /\ lock = "free"
    /\ wpc = "submitted"
    /\ wq = <<>>
    /\ spc = "off"
    /\ sq = <<>>
    /\ sbelow = FALSE
    /\ snext = 0
    /\ rkind = "none"
    /\ rpc = "idle"
    /\ rq = <<>>
    /\ rseen = "none"
    /\ rread = <<>>
    /\ resp = NoResponse
    /\ frozen = FALSE

InitJob ==
    /\ metadata = Metadata
    /\ meta = NoMetadata
    /\ latest = NoMetadata
    /\ jpc = "submitted"
    /\ total_segments = 0
    /\ processed_count = 0
    /\ text_found = FALSE
    /\ exc = "none"
    /\ temp_dir = FALSE
    /\ tmp_exists = FALSE
    /\ written = {}

Init ==
    /\ skip_subtitle \in BOOLEAN
    /\ client = "controls"
    /\ batches = {}
    /\ InitWeb
    /\ InitJob
    /\ InitEngine

InitStatus ==
    /\ skip_subtitle \in BOOLEAN
    /\ client = "poller"
    /\ batches = {TaskState}
    /\ InitWeb
    /\ InitJob
    /\ InitEngine

wvars == <<wpc, wq>>
svars == <<spc, sq, sbelow, snext>>
rvars == <<rkind, rpc, rq, rseen, rread, resp>>
control == <<pause_event, stop_event>>

(***************************************************************************)
(* _run_transcription_task                                                 *)
(***************************************************************************)
WorkerGetControl ==
    /\ wpc = "submitted"
    /\ lock = "free"
    /\ wpc' = "wait_start"
    /\ UNCHANGED <<batches, jobvars, enginevars, client, tablevars, task, control, lock, skip_subtitle, wq, svars, rvars, frozen>>

WorkerWaitStart ==
    /\ wpc = "wait_start"
    /\ pause_event
    /\ wpc' = "update_start"
    /\ wq' = StartUpdate
    /\ UNCHANGED <<batches, jobvars, enginevars, client, tablevars, task, control, lock, skip_subtitle, svars, rvars, frozen>>

WorkerUpdate(then) ==
    /\ update_task("worker", wq)
    /\ wq' = Tail(wq)
    /\ wpc' = IF Len(wq) = 1 THEN then ELSE wpc
    /\ UNCHANGED <<jobvars, enginevars, client, tablevars, control, skip_subtitle, svars, rvars, frozen>>

WorkerUpdateStart ==
    /\ wpc = "update_start"
    /\ WorkerUpdate("start_simulation")

WorkerStartSimulation ==
    /\ wpc = "start_simulation"
    /\ spc' = "loop"
    /\ wpc' = "transcribe"
    /\ UNCHANGED <<batches, jobvars, enginevars, client, tablevars, task, control, lock, skip_subtitle, wq, sq, sbelow, snext,
                   rvars, frozen>>

WorkerTranscribeMedia ==
    /\ wpc = "transcribe"
    /\ \E raised \in BOOLEAN :
         IF raised
         THEN wpc' = "update_error" /\ wq' = ErrorUpdate
         ELSE wpc' = "wait_finalize" /\ wq' = wq
    /\ UNCHANGED <<batches, jobvars, enginevars, client, tablevars, task, control, lock, skip_subtitle, svars, rvars, frozen>>

WorkerWaitFinalize ==
    /\ wpc = "wait_finalize"
    /\ pause_event
    /\ wpc' = "update_finalize"
    /\ wq' = FinalizingUpdate
    /\ UNCHANGED <<batches, jobvars, enginevars, client, tablevars, task, control, lock, skip_subtitle, svars, rvars, frozen>>

WorkerUpdateFinalize ==
    /\ wpc = "update_finalize"
    /\ WorkerUpdate("copy")

WorkerCopySubtitle ==
    /\ wpc = "copy"
    /\ \E raised \in {FALSE, ~skip_subtitle} :
         IF raised
         THEN wpc' = "update_error" /\ wq' = ErrorUpdate
         ELSE wpc' = "update_completed" /\ wq' = CompletedUpdate(~skip_subtitle)
    /\ UNCHANGED <<batches, jobvars, enginevars, client, tablevars, task, control, lock, skip_subtitle, svars, rvars, frozen>>

WorkerUpdateCompleted ==
    /\ wpc = "update_completed"
    /\ WorkerUpdate("finally")

WorkerUpdateError ==
    /\ wpc = "update_error"
    /\ WorkerUpdate("finally")

WorkerFinally ==
    /\ wpc = "finally"
    /\ stop_event' = TRUE
    /\ wpc' = "done"
    /\ UNCHANGED <<batches, jobvars, enginevars, client, tablevars, task, pause_event, lock, skip_subtitle, wq, svars, rvars, frozen>>

run_transcription_task ==
    \/ WorkerGetControl
    \/ WorkerWaitStart
    \/ WorkerUpdateStart
    \/ WorkerStartSimulation
    \/ WorkerTranscribeMedia
    \/ WorkerWaitFinalize
    \/ WorkerUpdateFinalize
    \/ WorkerCopySubtitle
    \/ WorkerUpdateCompleted
    \/ WorkerUpdateError
    \/ WorkerFinally

(***************************************************************************)
(* _start_progress_simulation._simulate                                    *)
(***************************************************************************)
SimStep(at, then) ==
    /\ spc = at
    /\ spc' = then
    /\ UNCHANGED <<batches, jobvars, enginevars, client, tablevars, task, control, lock, skip_subtitle, wvars, sq, rvars, frozen>>

SimLoop ==
    /\ SimStep("loop", IF stop_event THEN "done" ELSE "wait")
    /\ UNCHANGED <<sbelow, snext>>

SimWait ==
    /\ pause_event
    /\ SimStep("wait", "recheck")
    /\ UNCHANGED <<sbelow, snext>>

SimRecheck ==
    /\ SimStep("recheck", IF stop_event THEN "done" ELSE "get")
    /\ UNCHANGED <<sbelow, snext>>

SimGet ==
    /\ lock = "free"
    /\ SimStep("get", "status")
    /\ UNCHANGED <<sbelow, snext>>

SimReadStatus ==
    /\ SimStep("status", IF task.status # "processing" THEN "loop" ELSE "paused")
    /\ UNCHANGED <<sbelow, snext>>

SimReadPaused ==
    /\ SimStep("paused", IF task.paused THEN "loop" ELSE "below")
    /\ UNCHANGED <<sbelow, snext>>

SimReadBelow ==
    /\ SimStep("below", "value")
    /\ sbelow' = (task.progress < 80)
    /\ snext' = snext

SimReadValue ==
    /\ SimStep("value", "compare")
    /\ snext' = NextProgress(sbelow, task.progress)
    /\ sbelow' = FALSE

SimCompare ==
    /\ spc = "compare"
    /\ IF snext > task.progress
       THEN spc' = "update" /\ sq' = SimulateUpdate(snext)
       ELSE spc' = "loop" /\ sq' = sq
    /\ snext' = 0
    /\ sbelow' = sbelow
    /\ UNCHANGED <<batches, jobvars, enginevars, client, tablevars, task, control, lock, skip_subtitle, wvars, rvars, frozen>>

SimUpdate ==
    /\ spc = "update"
    /\ update_task("sim", sq)
    /\ sq' = Tail(sq)
    /\ spc' = IF Len(sq) = 1 THEN "loop" ELSE "update"
    /\ UNCHANGED <<jobvars, enginevars, client, tablevars, control, skip_subtitle, wvars, sbelow, snext, rvars, frozen>>

simulate ==
    \/ SimLoop
    \/ SimWait
    \/ SimRecheck
    \/ SimGet
    \/ SimReadStatus
    \/ SimReadPaused
    \/ SimReadBelow
    \/ SimReadValue
    \/ SimCompare
    \/ SimUpdate

(***************************************************************************)
(* The handlers: pause_task, resume_task, get_status                       *)
(***************************************************************************)
Requests == IF client = "poller" THEN {"status"} ELSE {"pause", "resume", "status"}

Arrive ==
    /\ rkind = "none"
    /\ rkind' \in Requests
    /\ rpc' = "get"
    /\ UNCHANGED <<batches, jobvars, enginevars, client, tablevars, task, control, lock, skip_subtitle, wvars, svars,
                   rq, rseen, rread, resp, frozen>>

\* _get_task_and_control, or the locked TASKS.get of get_status
HandlerGet ==
    /\ rpc = "get"
    /\ lock = "free"
    /\ rpc' = IF rkind = "status" THEN "payload" ELSE "check"
    /\ UNCHANGED <<batches, jobvars, enginevars, client, tablevars, task, control, lock, skip_subtitle, wvars, svars,
                   rkind, rq, rseen, rread, resp, frozen>>

HandlerCheck ==
    /\ rpc = "check"
    /\ IF Finished(task.status)
       THEN /\ resp' = [code |-> 400, body |-> <<>>]
            /\ rpc' = "respond"
       ELSE /\ resp' = resp
            /\ rpc' = "event"
    /\ UNCHANGED <<batches, jobvars, enginevars, client, tablevars, task, control, lock, skip_subtitle, wvars, svars,
                   rkind, rq, rseen, rread, frozen>>

HandlerEvent ==
    /\ rpc = "event"
    /\ pause_event' = (rkind = "resume")
    /\ rq' = IF rkind = "pause" THEN PauseUpdate ELSE ResumeUpdate
    /\ rpc' = "update"
    /\ frozen' = (frozen /\ rkind = "pause")
    /\ UNCHANGED <<batches, jobvars, enginevars, client, tablevars, task, stop_event, lock, skip_subtitle, wvars, svars,
                   rkind, rseen, rread, resp>>

HandlerUpdate ==
    /\ rpc = "update"
    /\ update_task("handler", rq)
    /\ rq' = Tail(rq)
    /\ rseen' = IF Head(rq)[1] = "status" THEN task.status
                ELSE IF Len(rq) = 1 THEN "none" ELSE rseen
    /\ rpc' = IF Len(rq) = 1 THEN "refresh" ELSE "update"
    /\ frozen' = IF rkind = "pause" /\ Len(rq) = 1
                 THEN frozen \/ rseen = "processing" ELSE frozen
    /\ UNCHANGED <<jobvars, enginevars, client, tablevars, control, skip_subtitle, wvars, svars, rkind, rread, resp>>

HandlerRefresh ==
    /\ rpc = "refresh"
    /\ lock = "free"
    /\ rpc' = "payload"
    /\ UNCHANGED <<batches, jobvars, enginevars, client, tablevars, task, control, lock, skip_subtitle, wvars, svars,
                   rkind, rq, rseen, rread, resp, frozen>>

\* _task_payload: one attribute read per step
task_payload ==
    /\ rpc = "payload"
    /\ LET read == Append(rread, task[PayloadSource(PayloadFields[Len(rread) + 1])])
       IN IF Len(read) = Len(PayloadFields)
          THEN /\ resp' = [code |-> 200, body |-> read]
               /\ rread' = <<>>
               /\ rpc' = "respond"
          ELSE /\ resp' = resp
               /\ rread' = read
               /\ rpc' = "payload"
    /\ UNCHANGED <<batches, jobvars, enginevars, client, tablevars, task, control, lock, skip_subtitle, wvars, svars,
                   rkind, rq, rseen, frozen>>

Respond ==
    /\ rpc = "respond"
    /\ rpc' = "idle"
    /\ rkind' = "none"
    /\ resp' = NoResponse
    /\ UNCHANGED <<batches, jobvars, enginevars, client, tablevars, task, control, lock, skip_subtitle, wvars, svars,
                   rq, rseen, rread, frozen>>

handler ==
    \/ Arrive
    \/ HandlerGet
    \/ HandlerCheck
    \/ HandlerEvent
    \/ HandlerUpdate
    \/ HandlerRefresh
    \/ task_payload
    \/ Respond

poll ==
    \/ Arrive
    \/ HandlerGet
    \/ task_payload
    \/ Respond

Next == run_transcription_task \/ simulate \/ handler

Spec == Init /\ [][Next]_vars

NextStatus == run_transcription_task \/ simulate \/ poll

\* a job no client pauses or resumes: the worker and its simulation thread
NextRun == run_transcription_task \/ simulate

\* the pool thread and the daemon thread are scheduled by the interpreter.
\* The worker contends for TASK_LOCK only with the simulation thread, which
\* holds it for one short update and then sleeps a second, so a worker step
\* that is enabled again and again is taken
SpecRun ==
    /\ Init
    /\ [][NextRun]_vars
    /\ SF_vars(run_transcription_task)
    /\ WF_vars(simulate)

SpecStatus == InitStatus /\ [][NextStatus]_vars

(***************************************************************************)
(* tasks.py: transcribe_job and the chunk loop it drives                   *)
(***************************************************************************)
MaxChunks == 3

\* results the engine returns for one chunk, at most
MaxResults == 2

\* sequences over S of length at most n
SeqsUpTo(S, n) == UNION {[1 .. k -> S] : k \in 0 .. n}

\* characters that str.strip() removes
Whitespace == {" ", "\n"}

RECURSIVE lstrip(_)
lstrip(s) ==
    IF s # <<>> /\ Head(s) \in Whitespace THEN lstrip(Tail(s)) ELSE s

RECURSIVE rstrip(_)
rstrip(s) ==
    IF s # <<>> /\ s[Len(s)] \in Whitespace
    THEN rstrip(SubSeq(s, 1, Len(s) - 1))
    ELSE s

\* str.strip() on a text, a sequence of characters
strip(s) == rstrip(lstrip(s))

\* result.text values of the engine
EngineTexts == {<<>>, <<" ">>, <<"a">>, <<" ", "a", "\n">>}

\* engine.py lines 167-170: a result is collected when its stripped text is
\* not empty
Collects(texts) == \E i \in DOMAIN texts : strip(texts[i]) # <<>>

\* engine.py lines 184-186: the temp directory after the finally clause
rmtree(exists, dir) == exists /\ ~dir

\* write_metadata(metadata_path, meta) after meta.update(changes)
write_metadata(changes) ==
    /\ meta' = [k \in DOMAIN meta |->
                  IF k \in DOMAIN changes THEN changes[k] ELSE meta[k]]
    /\ metadata' = meta'

\* update_progress(progress, message); the Celery state it also publishes
\* is not part of the record
update_progress(progress, message) ==
    write_metadata([progress |-> progress, message |-> message])

\* the ratio spread over the whole scale
ProgressOfUnbanded(k, n) == (100 * k) \div n

\* lines 108-110: 10 + int(min(max(ratio, 0.0), 1.0) * 70), ratio = k / n.
\* For the chunk counts here the truncated float product is the integer
\* quotient; the two differ first at 47 / 70
ProgressOf(k, n) == 10 + (70 * k) \div n

JobStep(at, then) ==
    /\ jpc = at
    /\ jpc' = then
    /\ UNCHANGED <<webvars, enginevars, skip_subtitle, client, tablevars>>

chunkvars == <<total_segments, processed_count, text_found>>
runvars == <<exc, temp_dir, tmp_exists, written>>

\* line 47
JobLoadMetadata ==
    /\ JobStep("submitted", "start")
    /\ meta' = metadata
    /\ UNCHANGED <<metadata, latest, chunkvars, runvars>>

\* lines 67-72
JobStart ==
    /\ JobStep("start", "report_start")
    /\ write_metadata([status |-> "processing", progress |-> 5,
                       message |-> "Preparing audio"])
    /\ UNCHANGED <<latest, chunkvars, runvars>>

\* line 73
JobReportStart ==
    /\ JobStep("report_start", "split_audio")
    /\ update_progress(5, "Preparing audio")
    /\ UNCHANGED <<latest, chunkvars, runvars>>

\* split_audio returning an empty list of chunks instead of raising
JobSplitAudioLenient ==
    /\ jpc = "split_audio"
    /\ \E n \in 0 .. MaxChunks, tool_failed \in BOOLEAN :
         IF tool_failed
         THEN /\ jpc' = "failed"
              /\ exc' = "ffmpeg returned non-zero exit status"
              /\ tmp_exists' = rmtree(TRUE, temp_dir)
              /\ UNCHANGED <<temp_dir, total_segments>>
         ELSE /\ jpc' = IF n = 0 THEN "assemble" ELSE "model"
              /\ temp_dir' = TRUE
              /\ tmp_exists' = TRUE
              /\ total_segments' = n
              /\ exc' = exc
    /\ UNCHANGED <<webvars, enginevars, skip_subtitle, client, tablevars, metadata, meta,
                   latest, processed_count, text_found, written>>

\* engine.py line 148 and split_audio: mkdtemp creates the directory, then
\* the conversion tool fails, or leaves no chunk, or leaves 1..MaxChunks
\* chunks; temp_dir is bound only when split_audio returns
JobSplitAudio ==
    /\ jpc = "split_audio"
    /\ \E n \in 0 .. MaxChunks, tool_failed \in BOOLEAN :
         IF tool_failed \/ n = 0
         THEN /\ jpc' = "failed"
              /\ exc' = IF tool_failed THEN "ffmpeg returned non-zero exit status"
                        ELSE "FFmpeg failed to generate audio segments"
              /\ tmp_exists' = rmtree(TRUE, temp_dir)
              /\ UNCHANGED <<temp_dir, total_segments>>
         ELSE /\ jpc' = "model"
              /\ temp_dir' = TRUE
              /\ tmp_exists' = TRUE
              /\ total_segments' = n
              /\ exc' = exc
    /\ UNCHANGED <<webvars, enginevars, skip_subtitle, client, tablevars, metadata, meta,
                   latest, processed_count, text_found, written>>

\* engine.py line 149: ModelCache.get returns a model or raises
JobGetModel ==
    /\ \E raised \in BOOLEAN :
         /\ JobStep("model", IF raised THEN "failed" ELSE "pause_check")
         /\ exc' = IF raised THEN "model construction failed" ELSE exc
         /\ tmp_exists' = IF raised THEN rmtree(tmp_exists, temp_dir)
                          ELSE tmp_exists
    /\ UNCHANGED <<metadata, meta, latest, chunkvars, temp_dir, written>>

\* pause_check, lines 83-84 and 87-89; load_metadata raises when the file
\* cannot be read or parsed
JobPauseCheck ==
    /\ \E raised \in BOOLEAN :
         /\ JobStep("pause_check",
                    IF raised THEN "failed"
                    ELSE IF metadata.status = "paused" THEN "pause_report"
                    ELSE "transcribe")
         /\ latest' = IF raised THEN latest ELSE metadata
         /\ meta' = IF raised \/ metadata.status = "paused" THEN meta
                    ELSE metadata
         /\ exc' = IF raised THEN "metadata unreadable" ELSE exc
         /\ tmp_exists' = IF raised THEN rmtree(tmp_exists, temp_dir)
                          ELSE tmp_exists
    /\ UNCHANGED <<metadata, chunkvars, temp_dir, written>>

\* pause_check, lines 85-86
JobPauseReport ==
    /\ JobStep("pause_report", "pause_check")
    /\ update_progress(latest.progress, "Paused")
    /\ UNCHANGED <<latest, chunkvars, runvars>>

\* engine.py lines 159-178: the engine call on one chunk and its results
JobTranscribeChunk ==
    /\ jpc = "transcribe"
    /\ \E raised \in BOOLEAN, texts \in SeqsUpTo(EngineTexts, MaxResults) :
         /\ jpc' = IF raised THEN "failed" ELSE "progress"
         /\ text_found' = IF raised THEN text_found
                          ELSE (text_found \/ Collects(texts))
         /\ processed_count' = IF raised THEN processed_count
                               ELSE processed_count + 1
         /\ exc' = IF raised THEN "engine failed" ELSE exc
         /\ tmp_exists' = IF raised THEN rmtree(tmp_exists, temp_dir)
                          ELSE tmp_exists
    /\ UNCHANGED <<webvars, enginevars, skip_subtitle, client, tablevars, metadata, meta,
                   latest, total_segments, temp_dir, written>>

\* engine.py lines 180-181 with the progress_callback of tasks.py
JobProgressCallback ==
    /\ JobStep("progress",
               IF processed_count = total_segments THEN "assemble" ELSE "pause_check")
    /\ update_progress(ProgressOf(processed_count, total_segments),
                       "Transcribing audio")
    /\ UNCHANGED <<latest, chunkvars, runvars>>

\* assemble_transcript without its check of the joined text
JobAssembleUnchecked ==
    /\ JobStep("assemble", "complete")
    /\ exc' = exc
    /\ written' = IF skip_subtitle THEN {"transcript"}
                  ELSE {"transcript", "subtitle"}
    /\ tmp_exists' = rmtree(tmp_exists, temp_dir)
    /\ UNCHANGED <<metadata, meta, latest, chunkvars, temp_dir>>

\* engine.py line 183, assemble_transcript and the finally clause
JobAssemble ==
    /\ JobStep("assemble", IF text_found THEN "complete" ELSE "failed")
    /\ exc' = IF text_found THEN exc ELSE "Transcription produced no text"
    /\ written' = IF ~text_found THEN written
                  ELSE IF skip_subtitle THEN {"transcript"}
                  ELSE {"transcript", "subtitle"}
    /\ tmp_exists' = rmtree(tmp_exists, temp_dir)
    /\ UNCHANGED <<metadata, meta, latest, chunkvars, temp_dir>>

\* lines 114-126
JobComplete ==
    /\ JobStep("complete", "returned")
    /\ write_metadata([status |-> "completed", progress |-> 100,
                       message |-> "Transcription complete",
                       subtitle_ready |-> ~skip_subtitle])
    /\ UNCHANGED <<latest, chunkvars, runvars>>

\* lines 127-139
JobFail ==
    /\ JobStep("failed", "raised")
    /\ write_metadata([status |-> "error", progress |-> 100, message |-> exc,
                       subtitle_ready |-> FALSE])
    /\ UNCHANGED <<latest, chunkvars, runvars>>

transcribe_job ==
    \/ JobLoadMetadata
    \/ JobStart
    \/ JobReportStart
    \/ JobSplitAudio
    \/ JobGetModel
    \/ JobPauseCheck
    \/ JobPauseReport
    \/ JobTranscribeChunk
    \/ JobProgressCallback
    \/ JobAssemble
    \/ JobComplete
    \/ JobFail

\* pause and resume of a Celery job: the handlers rewrite the status and
\* message of the metadata file
JobControl(to, message) ==
    /\ metadata' = [metadata EXCEPT !.status = to, !.message = message]
    /\ UNCHANGED <<webvars, enginevars, skip_subtitle, client, tablevars, meta, latest,
                   jpc, chunkvars, runvars>>

JobPause ==
    /\ metadata.status = "processing"
    /\ JobControl("paused", "Paused by user")

JobResume ==
    /\ metadata.status = "paused"
    /\ JobControl("processing", "Resuming task")

NextJob == transcribe_job \/ JobPause \/ JobResume

SpecJob == Init /\ [][NextJob]_vars

(***************************************************************************)
(* engine.py: ModelCache.get called from several threads                   *)
(***************************************************************************)
CacheStep(t, at) ==
    /\ call[t].pc = at
    /\ UNCHANGED <<webvars, jobvars, loopvars, srt, stamp, skip_subtitle, client, tablevars>>

\* line 35: get(model_name, device, compute_type) is called
CacheCall(t) ==
    /\ CacheStep(t, "idle")
    /\ chist.calls < MaxCalls
    /\ \E c \in ComputeTypes :
         call' = [call EXCEPT ![t] = [Idle EXCEPT !.pc = "lock",
                                                  !.compute_type = c]]
    /\ chist' = [chist EXCEPT !.calls = @ + 1]
    /\ UNCHANGED <<models, cache_lock>>

\* lines 37-39: the lock is taken and the key looked up; on a miss the
\* constructor is entered (line 42)
CacheAcquire(t) ==
    /\ CacheStep(t, "lock")
    /\ cache_lock = 0
    /\ cache_lock' = t
    /\ LET model == models[call[t].compute_type]
       IN call' = [call EXCEPT ![t].model = model,
                               ![t].pc = IF model # 0 THEN "return"
                                         ELSE "constructing"]
    /\ UNCHANGED <<models, chist>>

\* the with block is left by an exception
Propagate(t, e) ==
    /\ cache_lock' = 0
    /\ call' = [call EXCEPT ![t].pc = "idle", ![t].raised = e]
    /\ UNCHANGED <<models, chist>>

\* a constructor returns a new handle
Construct(t, then, c, as_fallback) ==
    /\ call' = [call EXCEPT ![t].pc = then,
                            ![t].model = chist.made + 1,
                            ![t].fallback_model =
                                IF as_fallback THEN chist.made + 1 ELSE @]
    /\ chist' = [chist EXCEPT !.made = @ + 1, !.built[c] = @ + 1]
    /\ UNCHANGED <<models, cache_lock>>

\* lines 42-56: WhisperModel(model_name, device, compute_type) returns or
\* raises
CacheConstructed(t) ==
    /\ CacheStep(t, "constructing")
    /\ \/ Construct(t, "store", call[t].compute_type, FALSE)
       \/ \E e \in Exceptions :
            IF Caught(e) /\ call[t].compute_type # "float32"
            THEN /\ call' = [call EXCEPT ![t].pc = "falling_back",
                                         ![t].exc = e]
                 /\ UNCHANGED <<models, cache_lock, chist>>
            ELSE Propagate(t, e)

\* lines 51-54: WhisperModel(model_name, device, "float32") returns or raises
CacheFellBack(t) ==
    /\ CacheStep(t, "falling_back")
    /\ \/ Construct(t, "store", "float32", TRUE)
       \/ \E e \in Exceptions : Propagate(t, e)

\* lines 57-60
CacheStore(t) ==
    /\ CacheStep(t, "store")
    /\ LET c == call[t].compute_type
           fallback_model == call[t].fallback_model
           stored == [models EXCEPT ![c] = call[t].model]
       IN /\ models' = IF fallback_model # 0
                       THEN [stored EXCEPT !["float32"] = fallback_model]
                       ELSE stored
          /\ chist' = IF fallback_model # 0 /\ chist.fell_back[c] = 0
                      THEN [chist EXCEPT !.fell_back[c] = fallback_model]
                      ELSE chist
    /\ cache_lock' = 0
    /\ call' = [call EXCEPT ![t].pc = "idle", ![t].returned = call[t].model]

\* line 60 after a hit
CacheReturn(t) ==
    /\ CacheStep(t, "return")
    /\ cache_lock' = 0
    /\ call' = [call EXCEPT ![t].pc = "idle", ![t].returned = call[t].model]
    /\ UNCHANGED <<models, chist>>

get(t) ==
    \/ CacheCall(t)
    \/ CacheAcquire(t)
    \/ CacheConstructed(t)
    \/ CacheFellBack(t)
    \/ CacheStore(t)
    \/ CacheReturn(t)

NextCache == \E t \in Threads : get(t)

SpecCache == Init /\ [][NextCache]_vars

(***************************************************************************)
(* engine.py: the chunk loop of transcribe_with_cache, result by result    *)
(***************************************************************************)
\* segment_length values, in time units
MaxLength == 2

\* largest start or end the engine reports within a chunk, in time units
MaxTime == 2

Max(a, b) == IF a >= b THEN a ELSE b

\* result.start and result.end values of the engine
Times == 0 .. MaxTime

\* result.text values of the loop: one that strips to nothing and one that
\* strips to a text
ResultTexts == {<<" ">>, <<" ", "a", "\n">>}

\* the results model.transcribe yields
EngineResults == [start : Times, end : Times, text : ResultTexts]

\* lines 151-154 for segment_length d and n chunks
InitLoop ==
    /\ \E d \in 1 .. MaxLength, n \in 1 .. MaxChunks :
         loop = [IdleLoop EXCEPT !.pc = "chunk", !.segment_length = d,
                                 !.total_segments = n]
    /\ lhist = IdleHistory

LoopStep(at) ==
    /\ loop.pc = at
    /\ UNCHANGED <<webvars, jobvars, cachevars, srt, stamp, skip_subtitle, client, tablevars>>

\* lines 156-166: the next chunk is handed to the engine
LoopTranscribe ==
    /\ LoopStep("chunk")
    /\ loop.processed_count < loop.total_segments
    /\ loop' = [loop EXCEPT !.pc = "results",
                            !.processed_count = @ + 1,
                            !.yielded = 0,
                            !.last_end = loop.offset]
    /\ lhist' = [lhist EXCEPT !.prev_end = lhist.cur_end, !.cur_end = 0,
                              !.prev_start = 0]

\* every result kept
KeepAll(text) == TRUE

\* line 169: a result is kept when its stripped text is not empty
Keep(text) == text # <<>>

\* lines 167-177: one result of the chunk
LoopResult ==
    /\ LoopStep("results")
    /\ loop.yielded < MaxResults
    /\ \E result \in EngineResults :
         LET text == strip(result.text)
             start == loop.offset + result.start
             end == loop.offset + result.end
         IN /\ loop' = IF Keep(text)
                       THEN [loop EXCEPT
                               !.yielded = @ + 1,
                               !.collected_len = @ + 1,
                               !.collected_last =
                                   [index |-> loop.segment_index,
                                    start |-> start, end |-> end,
                                    text |-> text],
                               !.segment_index = @ + 1,
                               !.last_end = Max(loop.last_end, end)]
                       ELSE [loop EXCEPT !.yielded = @ + 1]
            /\ lhist' = [lhist EXCEPT
                           !.cur_end = IF Keep(text) THEN Max(@, end) ELSE @,
                           !.from_chunk = IF Keep(text)
                                          THEN loop.processed_count ELSE @,
                           !.prev_start = result.start,
                           !.wellformed =
                               @ /\ 0 <= result.start
                                 /\ result.start <= result.end,
                           !.ordered =
                               @ /\ 0 <= result.start
                                 /\ result.start <= result.end
                                 /\ (loop.yielded > 0
                                     => lhist.prev_start <= result.start)]

\* the offset advanced by the nominal chunk length only
NextOffsetNominal(last_end, offset, segment_length) ==
    offset + segment_length

\* the offset moved to the largest end only
NextOffsetLastEnd(last_end, offset, segment_length) == last_end

\* line 178
NextOffset(last_end, offset, segment_length) ==
    Max(last_end, offset + segment_length)

\* lines 178-181: the results of the chunk are exhausted
LoopChunkEnd ==
    /\ LoopStep("results")
    /\ loop' = [loop EXCEPT
                  !.pc = IF loop.processed_count = loop.total_segments
                         THEN "assemble" ELSE "chunk",
                  !.offset = NextOffset(loop.last_end, loop.offset,
                                        loop.segment_length)]
    /\ UNCHANGED lhist

NextLoop == LoopTranscribe \/ LoopResult \/ LoopChunkEnd

InitChunks ==
    /\ skip_subtitle = FALSE
    /\ client = "controls"
    /\ batches = {}
    /\ InitWeb
    /\ InitJob
    /\ InitCache
    /\ InitLoop
    /\ srt = IdleSrt
    /\ stamp = IdleStamp
    /\ EmptyTables

SpecChunks == InitChunks /\ [][NextLoop]_vars

(***************************************************************************)
(* utils.py: segments_to_srt and format_timestamp                          *)
(***************************************************************************)
\* segments in one call of segments_to_srt
MaxSegments == 3

\* hours of the longest time given to format_timestamp
MaxHours == 100

\* the decimal digits as characters
Digit == <<"0", "1", "2", "3", "4", "5", "6", "7", "8", "9">>

\* str(n) for n >= 0
RECURSIVE Decimal(_)
Decimal(n) ==
    IF n < 10 THEN <<Digit[n + 1]>>
    ELSE Decimal(n \div 10) \o <<Digit[(n % 10) + 1]>>

\* digits left as they are
NoPad(chars, width) == chars

\* the format specs :02 and :03: zeros in front up to the width
RECURSIVE ZeroPad(_, _)
ZeroPad(chars, width) ==
    IF Len(chars) >= width THEN chars ELSE ZeroPad(<<"0">> \o chars, width)

\* format_timestamp(seconds), seconds given as a whole number of
\* milliseconds m: int(round(m / 1000 * 1000)) is m, the error of the two
\* float operations being far below one half
format_timestamp(seconds) ==
    LET milliseconds_total == seconds
        hours == milliseconds_total \div 3600000
        remainder == milliseconds_total % 3600000
        minutes == remainder \div 60000
        seconds_whole == (remainder % 60000) \div 1000
        milliseconds == (remainder % 60000) % 1000
    IN ZeroPad(Decimal(hours), 2) \o <<":">>
       \o ZeroPad(Decimal(minutes), 2) \o <<":">>
       \o ZeroPad(Decimal(seconds_whole), 2) \o <<",">>
       \o ZeroPad(Decimal(milliseconds), 3)

\* times given to format_timestamp, in milliseconds
StampInputs ==
    {h * 3600000 + m * 60000 + s * 1000 + ms :
        h \in {0, 1, 10, MaxHours - 1, MaxHours}, m \in {0, 9, 59},
        s \in {0, 10, 59}, ms \in {0, 1, 99, 999}}

InitStamp ==
    \E seconds \in StampInputs :
        stamp = [pc |-> "call", seconds |-> seconds, result |-> <<>>]

\* format_timestamp is applied to the time
StampFormat ==
    /\ stamp.pc = "call"
    /\ stamp' = [stamp EXCEPT !.pc = "returned",
                              !.result = format_timestamp(stamp.seconds)]
    /\ UNCHANGED <<webvars, jobvars, cachevars, loopvars, srt, skip_subtitle,
                   client, tablevars>>

\* start and end of a segment, in milliseconds
SrtTimes == {<<0, 1000>>, <<61001, 3725042>>}

\* keys a caller's segment carries; index is not read by segments_to_srt
SrtSegments ==
    {[index |-> 7, start |-> t[1], end |-> t[2], text |-> x] :
        t \in SrtTimes, x \in EngineTexts}

\* segments_to_srt, lines 20-35: the lines of the segments from position
\* index on
RECURSIVE SrtLines(_, _)
SrtLines(segments, index) ==
    IF index > Len(segments) THEN <<>>
    ELSE LET segment == segments[index]
             text == strip(segment.text)
         IN IF text = <<>> THEN SrtLines(segments, index + 1)
            ELSE <<[kind |-> "number", value |-> index],
                   [kind |-> "time",
                    start |-> format_timestamp(segment.start),
                    end |-> format_timestamp(segment.end)],
                   [kind |-> "text", value |-> text],
                   [kind |-> "blank"]>>
                 \o SrtLines(segments, index + 1)

\* lines 30-33: the characters of one line
Characters(line) ==
    CASE line.kind = "number" -> Decimal(line.value)
      [] line.kind = "time" ->
           line.start \o <<" ", "-", "-", ">", " ">> \o line.end
      [] line.kind = "text" -> line.value
      [] line.kind = "blank" -> <<>>

\* "\n".join(lines)
RECURSIVE Join(_)
Join(lines) ==
    IF lines = <<>> THEN <<>>
    ELSE IF Len(lines) = 1 THEN Characters(lines[1])
    ELSE Characters(lines[1]) \o <<"\n">> \o Join(Tail(lines))

\* the joined lines ended by a newline, not stripped
segments_to_srt_unstripped(segments) ==
    LET lines == SrtLines(segments, 1)
    IN IF lines = <<>> THEN <<>> ELSE Join(lines) \o <<"\n">>

\* lines 35-38
segments_to_srt(segments) ==
    LET lines == SrtLines(segments, 1)
    IN IF lines = <<>> THEN <<>> ELSE strip(Join(lines)) \o <<"\n">>

InitSrt ==
    \E segments \in SeqsUpTo(SrtSegments, MaxSegments) :
        srt = [pc |-> "call", segments |-> segments, lines |-> <<>>,
               result |-> <<>>]

\* segments_to_srt is applied to the segments
SrtConvert ==
    /\ srt.pc = "call"
    /\ srt' = [srt EXCEPT !.pc = "returned",
                          !.lines = SrtLines(srt.segments, 1),
                          !.result = segments_to_srt(srt.segments)]
    /\ UNCHANGED <<webvars, jobvars, cachevars, loopvars, stamp, skip_subtitle,
                   client, tablevars>>

NextSrt == SrtConvert

InitCodec ==
    /\ skip_subtitle = FALSE
    /\ client = "controls"
    /\ batches = {}
    /\ InitWeb
    /\ InitJob
    /\ InitCache
    /\ loop = IdleLoop
    /\ lhist = IdleHistory
    /\ stamp = IdleStamp
    /\ EmptyTables
    /\ InitSrt

SpecSrt == InitCodec /\ [][NextSrt]_vars

NextStamp == StampFormat

InitTimestamp ==
    /\ skip_subtitle = FALSE
    /\ client = "controls"
    /\ batches = {}
    /\ InitWeb
    /\ InitJob
    /\ InitCache
    /\ loop = IdleLoop
    /\ lhist = IdleHistory
    /\ srt = IdleSrt
    /\ EmptyTables
    /\ InitStamp

SpecStamp == InitTimestamp /\ [][NextStamp]_vars

(***************************************************************************)
(* web.py: the job table, the controls and the pool under several jobs.    *)
(* The handlers are coroutines without an await and run one at a time on   *)
(* the event loop; a run is followed here from wait to wait, its progress  *)
(* simulation left to the single-job specification above.                  *)
(***************************************************************************)
\* jobs submitted in one run of the server
MaxJobs == 2

\* line 60: ThreadPoolExecutor(max_workers=2)
max_workers == 2

\* the values uuid.uuid4().hex takes
Ids == 1 .. MaxJobs

\* task ids of requests: 0 is an id no submission returned
TaskIds == 0 .. MaxJobs

WHISPER_MODELS ==
    {"tiny", "base", "small", "medium", "large", "large-v2", "large-v3"}

\* model and file name of a submission
Models == {"base", "huge"}
Filenames == {"a.mp3", ""}

\* a uuid taken without regard to the ones in use
uuid4_any(used) == Ids

\* line 448: uuid4 draws 122 random bits; a value already in use is not
\* among its outcomes
uuid4(used) == Ids \ used

\* an unsupported model accepted
Supported_any(model) == TRUE

\* line 471
Supported(model) == model \in WHISPER_MODELS

\* task ids whose run is on a pool thread
Running == {id \in DOMAIN EXECUTOR.at : EXECUTOR.at[id] \in {"wait_start", "transcribe"}}

\* lines 449-456: the record of a new job; its message is left out, no
\* handler or run reads it
NewTaskState(skip) ==
    [status |-> "queued", progress |-> 0, skip_subtitle |-> skip,
     paused |-> FALSE, subtitle_file |-> FALSE]

TableStep == UNCHANGED <<webvars, jobvars, enginevars, skip_subtitle, client>>

\* queue_transcription, lines 464-501, with _create_task_state, lines 442-461
queue_transcription ==
    /\ \E model \in Models, filename \in Filenames, skip \in BOOLEAN :
         IF ~Supported(model) \/ filename = ""
         THEN /\ reply' = [NoReply EXCEPT !.request = "queue",
                                          !.model = model,
                                          !.filename = filename,
                                          !.code = 400]
              /\ UNCHANGED <<TASKS, TASK_CONTROLS, EXECUTOR, disk>>
         ELSE \E task_id \in uuid4(DOMAIN TASKS) :
                /\ disk' = [disk EXCEPT !.temp = @ \cup {task_id}]
                /\ TASKS' = (task_id :> NewTaskState(skip))
                            @@ TASKS
                /\ TASK_CONTROLS' =
                       (task_id :> [pause_event |-> TRUE, stop_event |-> FALSE])
                       @@ TASK_CONTROLS
                /\ EXECUTOR' = [work |-> Append(EXECUTOR.work, task_id),
                                at |-> (task_id :> "pending") @@ EXECUTOR.at]
                /\ reply' = [NoReply EXCEPT !.request = "queue",
                                            !.task_id = task_id,
                                            !.model = model,
                                            !.filename = filename,
                                            !.code = 200]
    /\ TableStep

\* a free pool thread takes the oldest work item and looks up its control,
\* line 389
PoolStart ==
    /\ Cardinality(Running) < max_workers
    /\ \E i \in 1 .. Len(EXECUTOR.work) :
         /\ EXECUTOR.at[EXECUTOR.work[i]] = "pending"
         /\ \A j \in 1 .. i - 1 : EXECUTOR.at[EXECUTOR.work[j]] # "pending"
         /\ EXECUTOR' = [EXECUTOR EXCEPT !.at[EXECUTOR.work[i]] = "wait_start"]
    /\ UNCHANGED <<TASKS, TASK_CONTROLS, disk, reply>>
    /\ TableStep

\* lines 391-398: past the wait, the start update
RunBegin ==
    /\ \E task_id \in DOMAIN EXECUTOR.at :
         /\ EXECUTOR.at[task_id] = "wait_start"
         /\ TASK_CONTROLS[task_id].pause_event
         /\ TASKS' = [TASKS EXCEPT
                        ![task_id].status = "processing",
                        ![task_id].progress = 10,
                        ![task_id].paused = FALSE]
         /\ EXECUTOR' = [EXECUTOR EXCEPT !.at[task_id] = "transcribe"]
    /\ UNCHANGED <<TASK_CONTROLS, disk, reply>>
    /\ TableStep

\* lines 401-439: transcribe_media raises, or the run gets past the second
\* wait and the copy of the subtitle and writes completed; the finally
\* clause sets stop_event and removes the temporary directory
RunEnd ==
    /\ \E task_id \in DOMAIN EXECUTOR.at, raised \in BOOLEAN :
         /\ EXECUTOR.at[task_id] = "transcribe"
         /\ raised \/ TASK_CONTROLS[task_id].pause_event
         /\ TASKS' = [TASKS EXCEPT
                        ![task_id].status = IF raised THEN "error" ELSE "completed",
                        ![task_id].progress = 100,
                        ![task_id].paused = FALSE,
                        ![task_id].subtitle_file =
                            ~raised /\ ~TASKS[task_id].skip_subtitle]
         /\ TASK_CONTROLS' = [TASK_CONTROLS EXCEPT ![task_id].stop_event = TRUE]
         /\ disk' = [temp |-> disk.temp \ {task_id},
                     output |-> IF ~raised /\ ~TASKS[task_id].skip_subtitle
                                THEN disk.output \cup {task_id}
                                ELSE disk.output]
         /\ EXECUTOR' = [EXECUTOR EXCEPT !.at[task_id] = "done"]
    /\ UNCHANGED reply
    /\ TableStep

\* a response of the handler `request` for task_id
Response(request, task_id, code, detail) ==
    [NoReply EXCEPT !.request = request, !.task_id = task_id, !.code = code,
                    !.detail = detail]

\* get_status, lines 504-513
get_status ==
    /\ \E task_id \in TaskIds :
         reply' = IF task_id \notin DOMAIN TASKS
                  THEN Response("status", task_id, 404, "Task not found")
                  ELSE Response("status", task_id, 200, "payload")
    /\ UNCHANGED <<TASKS, TASK_CONTROLS, EXECUTOR, disk>>
    /\ TableStep

\* pause_task, lines 516-530, and resume_task, lines 533-547
Control(request) ==
    /\ \E task_id \in TaskIds :
         IF task_id \notin DOMAIN TASKS
         THEN /\ reply' = Response(request, task_id, 404, "Task not found")
              /\ UNCHANGED <<TASKS, TASK_CONTROLS>>
         ELSE IF Finished(TASKS[task_id].status)
         THEN /\ reply' = Response(request, task_id, 400, "Task already finished")
              /\ UNCHANGED <<TASKS, TASK_CONTROLS>>
         ELSE /\ TASK_CONTROLS' =
                    [TASK_CONTROLS EXCEPT
                       ![task_id].pause_event = (request = "resume")]
              /\ TASKS' = [TASKS EXCEPT
                             ![task_id].status =
                                 IF request = "pause" THEN "paused"
                                 ELSE "processing",
                             ![task_id].paused = (request = "pause")]
              /\ reply' = Response(request, task_id, 200, "payload")
    /\ UNCHANGED <<EXECUTOR, disk>>
    /\ TableStep

pause_task ==
    /\ reply.request \in {"none", "queue", "status", "pause", "resume", "download"}
    /\ Control("pause")

resume_task ==
    /\ reply.code \in {0, 200, 400, 404}
    /\ Control("resume")

\* the subtitle served without a look at the disk
AvailableUnchecked(subtitle_file, exists) == subtitle_file

\* line 559: not (not subtitle_file or not subtitle_file.exists())
Available(subtitle_file, exists) == subtitle_file /\ exists

\* download_subtitle, lines 550-560
download_subtitle ==
    /\ \E task_id \in TaskIds :
         reply' = IF task_id \notin DOMAIN TASKS
                  THEN Response("download", task_id, 404, "Task not found")
                  ELSE IF ~Available(TASKS[task_id].subtitle_file,
                                     task_id \in disk.output)
                  THEN Response("download", task_id, 404, "Subtitle not available")
                  ELSE Response("download", task_id, 200, "file")
    /\ UNCHANGED <<TASKS, TASK_CONTROLS, EXECUTOR, disk>>
    /\ TableStep

\* line 559, exists(): a subtitle in OUTPUT_DIR is a file another process
\* can remove
OutputRemoved ==
    /\ \E task_id \in disk.output :
         disk' = [disk EXCEPT !.output = @ \ {task_id}]
    /\ UNCHANGED <<TASKS, TASK_CONTROLS, EXECUTOR, reply>>
    /\ TableStep

NextTable ==
    \/ queue_transcription
    \/ PoolStart
    \/ RunBegin
    \/ RunEnd
    \/ get_status
    \/ pause_task
    \/ resume_task
    \/ download_subtitle
    \/ OutputRemoved

InitServer ==
    /\ skip_subtitle = FALSE
    /\ client = "controls"
    /\ batches = {}
    /\ InitWeb
    /\ InitJob
    /\ InitEngine

SpecTable == InitServer /\ [][NextTable]_vars

(***************************************************************************)
(* Properties                                                              *)
(***************************************************************************)
Terminal == {"completed", "error"}

HandlerWrites == rq # <<>> /\ rq' # rq

\* C1: once the status of a job is completed or error, no later step of
\* any thread changes it.
C1_TerminalAbsorbing ==
    [][task.status \in Terminal => task'.status = task.status]_vars

\* C2: a pause or resume handler that reads a completed or error status
\* answers 400 and changes neither the record nor the pause event.
C2_FinishedRejected ==
    [][(rkind \in {"pause", "resume"} /\ rpc = "check" /\ rpc' # "check"
        /\ task.status \in Terminal)
       => (resp'.code = 400 /\ rpc' = "respond" /\ rq' = <<>>
           /\ task' = task /\ pause_event' = pause_event)]_vars

C2_Rejected ==
    /\ rkind = "pause"
    /\ rpc = "respond"
    /\ resp.code = 400
    /\ task.status = "error"

\* C3: the status becomes completed or error only in a step that starts
\* with the status processing, never directly from paused or queued.
C3_FinishOnlyFromProcessing ==
    [][(task'.status \in Terminal /\ task.status \notin Terminal)
       => task.status = "processing"]_vars

\* C4: the status becomes paused only in a step that starts with the
\* status processing; a pause of a queued job does not make it paused.
C4_PauseOnlyFromProcessing ==
    [][(task'.status = "paused" /\ task.status # "paused")
       => task.status = "processing"]_vars

\* C5: a resume handler makes the status processing only when the status
\* it replaces is paused.
C5_ResumeOnlyFromPaused ==
    [][(rkind = "resume" /\ HandlerWrites
        /\ task'.status = "processing" /\ task.status # "processing")
       => task.status = "paused"]_vars

\* C6: from the completion of a pause of a processing job until a resume
\* of it begins, progress does not change.
C6_PauseFreezesProgress ==
    [][(frozen /\ frozen') => task'.progress = task.progress]_vars

\* C7: while the metadata status is paused and transcribe_job is in
\* pause_check, no step of transcribe_job writes another status or goes on
\* to the next chunk.
C7_PausedHoldsChunk ==
    [][(jpc \in {"pause_check", "pause_report"} /\ jpc' # jpc
        /\ metadata.status = "paused")
       => (metadata'.status = "paused" /\ jpc' # "transcribe")]_vars

\* C8: across two consecutive states with status processing, progress does
\* not decrease.
C8_ProgressMonotone ==
    [][(task.status = "processing" /\ task'.status = "processing")
       => task'.progress >= task.progress]_vars

\* C9: between update batches, progress is 100 exactly when the status is
\* completed or error.
C9_HundredIffFinished ==
    lock = "free" => (task.progress = 100 <=> task.status \in Terminal)

\* C10: the status, progress, message, paused flag and subtitle_ready that
\* get_status returns are those of the record after one complete update.
C10_NoTornStatus ==
    (rkind = "status" /\ rpc = "respond")
    => \E b \in batches :
         SubSeq(resp.body, 1, 5)
           = <<b.status, b.progress, b.message, b.paused, b.subtitle_file>>

\* C11: when the worker and the simulation thread have ended, no request is
\* in flight and the status is error, the record is the one the except
\* clause wrote: progress 100, the exception's description as message, no
\* subtitle.
C11_ExceptionGivesError ==
    (wpc = "done" /\ spc = "done" /\ rpc = "idle" /\ task.status = "error")
    => (task.progress = 100 /\ task.message = "exc" /\ ~task.subtitle_file)

\* C12: a run in which no result had text writes no file and ends in error;
\* a completed job has a transcript with text.
C12_NoEmptyTranscript ==
    /\ ~text_found => written = {}
    /\ jpc \in {"complete", "returned"} => (text_found /\ "transcript" \in written)
    /\ metadata.status = "completed" => text_found
    /\ jpc = "raised" => metadata.status = "error"

C12_SilentRunFailed ==
    /\ jpc = "raised"
    /\ exc = "Transcription produced no text"
    /\ processed_count = total_segments
    /\ processed_count > 1
    /\ written = {}
    /\ metadata.status = "error"

\* C13: with results that have 0 <= start <= end, a segment collected from a
\* chunk starts no earlier than the largest end collected from the chunk
\* before it, and no earlier than the chunk's position times segment_length.
C13_ChunkStartsAfterPrevious ==
    (lhist.wellformed /\ loop.pc = "results"
     /\ lhist.from_chunk = loop.processed_count)
    => /\ loop.collected_last.start >= lhist.prev_end
       /\ loop.collected_last.start
            >= (loop.processed_count - 1) * loop.segment_length

C13_AfterLongChunk ==
    /\ lhist.wellformed
    /\ loop.pc = "results"
    /\ loop.processed_count >= 2
    /\ lhist.from_chunk = loop.processed_count
    /\ lhist.prev_end > (loop.processed_count - 1) * loop.segment_length

\* C14: every segment appended to collected has the next index, so that the
\* indices are 1..k in emission order; its stripped text is not empty; and
\* when the results so far were in temporal order with 0 <= start <= end it
\* starts no earlier than the segment collected before it.
C14_CollectedContiguous ==
    [][IF loop'.collected_len = loop.collected_len
       THEN loop'.collected_last = loop.collected_last
       ELSE /\ loop'.collected_len = loop.collected_len + 1
            /\ loop'.collected_last.index = loop'.collected_len
            /\ loop'.segment_index = loop'.collected_len + 1
            /\ strip(loop'.collected_last.text) # <<>>
            /\ (lhist'.ordered /\ loop.collected_len > 0)
               => loop'.collected_last.start >= loop.collected_last.start]_vars

C14_BlankDropped ==
    /\ lhist.ordered
    /\ loop.processed_count = 2
    /\ loop.yielded = 2
    /\ loop.collected_len = 2
    /\ lhist.from_chunk = 2
    /\ lhist.prev_end > 0

\* C15: once a fallback handle has been stored for a compute type, that
\* compute type and float32 are bound to it, and every later hit on either
\* key returns it.
C15_FallbackShared ==
    \A c \in ComputeTypes \ {"float32"} :
        chist.fell_back[c] # 0
        => /\ models[c] = chist.fell_back[c]
           /\ models["float32"] = chist.fell_back[c]
           /\ \A t \in Threads :
                (call[t].pc = "return" /\ call[t].compute_type \in {c, "float32"})
                => call[t].model = chist.fell_back[c]

\* C16: a key bound to a handle is never bound to another handle.
C16_EntriesImmutable ==
    [][\A c \in ComputeTypes : models[c] # 0 => models'[c] = models[c]]_vars

\* C17: the fallback construction is entered only after an unsupported
\* compute type failure of a request that is not float32; a call left by an
\* exception leaves the cache as it was.
C17_OnlyUnsupportedFallsBack ==
    [][\A t \in Threads :
         /\ (call[t].pc = "constructing" /\ call'[t].pc = "falling_back")
            => (call'[t].exc.unsupported /\ call[t].compute_type # "float32")
         /\ (call[t].pc \in {"constructing", "falling_back"}
             /\ call'[t].pc = "idle")
            => (models' = models /\ call'[t].raised # NoException)]_vars

\* C18: at most one thread is inside a constructor, and no compute type has
\* been constructed successfully more than once.
C18_OneConstruction ==
    /\ Cardinality({t \in Threads :
                      call[t].pc \in {"constructing", "falling_back"}}) <= 1
    /\ \A c \in ComputeTypes : chist.built[c] <= 1

\* C19: when transcribe_with_cache has returned or raised, the directory
\* made for its chunks does not exist.
C19_TempDirRemoved ==
    jpc \in {"complete", "returned", "failed", "raised"} => ~tmp_exists

\* C20: the cue numbers of the result are 1..k in order, k being the number
\* of segments whose stripped text is not empty.
C20_CuesNumberedFromOne ==
    srt.pc = "returned"
    => LET IsNumber(line) == line.kind = "number"
           numbers == SelectSeq(srt.lines, IsNumber)
           texts == {i \in DOMAIN srt.segments :
                        strip(srt.segments[i].text) # <<>>}
       IN /\ Len(numbers) = Cardinality(texts)
          /\ \A i \in DOMAIN numbers : numbers[i].value = i


\* the lines of a text, each ended by a newline
RECURSIVE SplitLines(_)
SplitLines(chars) ==
    IF chars = <<>> THEN <<>>
    ELSE IF \A i \in 1 .. Len(chars) : chars[i] # "\n" THEN <<chars>>
    ELSE LET i == CHOOSE k \in 1 .. Len(chars) :
                      /\ chars[k] = "\n"
                      /\ \A j \in 1 .. k - 1 : chars[j] # "\n"
         IN <<SubSeq(chars, 1, i - 1)>>
            \o SplitLines(SubSeq(chars, i + 1, Len(chars)))

\* the segments of the call whose text is not blank
Cues == {i \in 1 .. Len(srt.segments) : strip(srt.segments[i].text) # <<>>}

RECURSIVE Value(_)
Value(chars) ==
    IF chars = <<>> THEN 0
    ELSE 10 * Value(SubSeq(chars, 1, Len(chars) - 1))
         + ((CHOOSE d \in 1 .. 10 : Digit[d] = chars[Len(chars)]) - 1)

IsDigits(chars) ==
    \A i \in 1 .. Len(chars) : \E d \in 1 .. 10 : Digit[d] = chars[i]

\* the fields of a timestamp H..H:MM:SS,mmm, read from its end
Fields(chars) ==
    LET n == Len(chars)
    IN [hours |-> SubSeq(chars, 1, n - 10),
        minutes |-> SubSeq(chars, n - 8, n - 7),
        seconds |-> SubSeq(chars, n - 5, n - 4),
        milliseconds |-> SubSeq(chars, n - 2, n),
        marks |-> <<chars[n - 9], chars[n - 6], chars[n - 3]>>]

\* the fields are digits between the marks, minutes and seconds are below
\* 60, and the fields read back as the time m
ReadsBack(chars, m) ==
    /\ Len(chars) >= 12
    /\ LET f == Fields(chars)
       IN /\ f.marks = <<":", ":", ",">>
          /\ IsDigits(f.hours) /\ IsDigits(f.minutes)
          /\ IsDigits(f.seconds) /\ IsDigits(f.milliseconds)
          /\ Value(f.minutes) < 60
          /\ Value(f.seconds) < 60
          /\ Value(f.hours) * 3600000 + Value(f.minutes) * 60000
             + Value(f.seconds) * 1000 + Value(f.milliseconds) = m

\* C22 as stated: for every whole number of milliseconds m, format_timestamp
\* gives exactly two hour digits, two minute digits, two second digits and
\* three millisecond digits, and the fields read back as m.
C22_TwoHourDigits ==
    stamp.pc = "returned" =>
        /\ Len(stamp.result) = 12
        /\ ReadsBack(stamp.result, stamp.seconds)

\* C22, amended: the fields always read back as m with minutes and seconds
\* below 60; the hour field has exactly two digits for times under 100
\* hours and more digits from 100 hours on.
C22_ReadsBackHoursWiden ==
    stamp.pc = "returned" =>
        /\ ReadsBack(stamp.result, stamp.seconds)
        /\ (stamp.seconds < 360000000 <=> Len(stamp.result) = 12)

C22_LastInstantOfAnHour ==
    /\ stamp.pc = "returned"
    /\ stamp.seconds = (MaxHours - 1) * 3600000 + 59 * 60000 + 59 * 1000 + 999
    /\ stamp.result # <<>>


\* C30: when a chunk's results are exhausted the offset becomes the larger
\* of the largest adjusted end collected from that chunk and the previous
\* offset plus segment_length; it never decreases, after the k-th chunk it is
\* at least k * segment_length, and a chunk from which nothing was collected
\* advances it by exactly segment_length.
C30_OffsetAdvance ==
    [][/\ loop'.offset >= loop.offset
       /\ (loop.pc = "results" /\ loop'.pc # "results")
          => /\ loop'.offset
                  = Max(IF lhist.from_chunk = loop.processed_count
                        THEN lhist.cur_end ELSE 0,
                        loop.offset + loop.segment_length)
             /\ loop'.offset >= loop.processed_count * loop.segment_length
             /\ (lhist.from_chunk # loop.processed_count
                 => loop'.offset = loop.offset + loop.segment_length)
       /\ (loop.pc # "results" \/ loop'.pc = "results")
          => loop'.offset = loop.offset]_vars

C30_EmptyChunkAfterLongChunk ==
    /\ loop.pc = "chunk"
    /\ loop.processed_count = 2
    /\ lhist.from_chunk = 1
    /\ loop.offset > 2 * loop.segment_length


\* C29: a progress write of transcribe_job (update_progress from the progress
\* callback or from pause_check) changes only progress and message of the
\* metadata: the status stays as it was, in particular paused stays paused.
C29_ProgressWriteKeepsStatus ==
    [][(jpc \in {"progress", "pause_report"} /\ jpc' # jpc)
       => /\ metadata'.status = metadata.status
          /\ \A k \in DOMAIN metadata \ {"progress", "message"} :
               metadata'[k] = metadata[k]]_vars


\* C24: in every payload a handler returns, subtitle_ready is true exactly
\* when subtitle_filename and subtitle_url are not null, and it is true only
\* for a job that asked for a subtitle.
C24_SubtitleReadyAgrees ==
    (rpc = "respond" /\ resp.code = 200)
    => /\ resp.body[5] <=> resp.body[6]
       /\ resp.body[5] <=> resp.body[7]
       /\ resp.body[5] => ~skip_subtitle


\* C28: no job hangs.  With no request in flight, a worker that waits on the
\* cleared pause event does so under a record that does not say processing,
\* and a worker that has ended leaves a record that says completed or
\* error: no record stays short of a final status with nothing left to run.
C28_NoJobHangs ==
    (rpc = "idle" /\ lock = "free")
    => /\ (wpc \in {"wait_start", "wait_finalize"} /\ ~pause_event)
          => task.status # "processing"
       /\ wpc = "done" => task.status \in Terminal


\* C27: a job that is never paused and whose transcription and subtitle copy
\* do not raise passes through processing and reaches completed with
\* progress 100; its status then stays completed and is never error.
C27_NormalRunCompletes ==
    [](wpc # "update_error")
    => /\ <>(task.status = "processing")
       /\ <>(task.status = "completed" /\ task.progress = 100)
       /\ <>[](task.status = "completed")
       /\ [](task.status # "error")

C27_RunCompleted ==
    /\ wpc = "done"
    /\ spc = "done"
    /\ task.status = "completed"
    /\ task.progress = 100


\* C23: a submission with an unsupported model or without a file name is
\* answered 400 and leaves the job table, the controls and the pool as they
\* were; an accepted one adds exactly one record, under an id that was not
\* in the table, with status queued and progress 0, adds its control and
\* submits that id to the pool once.
C23_SubmissionAllOrNothing ==
    [][(reply' # reply /\ reply'.request = "queue")
       => IF reply'.model \notin WHISPER_MODELS \/ reply'.filename = ""
          THEN /\ reply'.code = 400
               /\ TASKS' = TASKS
               /\ TASK_CONTROLS' = TASK_CONTROLS
               /\ EXECUTOR' = EXECUTOR
          ELSE /\ reply'.code = 200
               /\ reply'.task_id \notin DOMAIN TASKS
               /\ DOMAIN TASKS' = DOMAIN TASKS \cup {reply'.task_id}
               /\ \A k \in DOMAIN TASKS :
                    TASKS'[k] = TASKS[k] /\ TASK_CONTROLS'[k] = TASK_CONTROLS[k]
               /\ TASKS'[reply'.task_id].status = "queued"
               /\ TASKS'[reply'.task_id].progress = 0
               /\ DOMAIN TASK_CONTROLS' = DOMAIN TASKS'
               /\ EXECUTOR'.work = Append(EXECUTOR.work, reply'.task_id)]_vars

C23_RejectedBesideAJob ==
    /\ reply.request = "queue"
    /\ reply.code = 400
    /\ reply.model = "huge"
    /\ Len(EXECUTOR.work) = 1

\* the tables, the pool and the directories
Tables == <<TASKS, TASK_CONTROLS, EXECUTOR, disk>>

C26_DispatchedOnce ==
    /\ \A i, j \in 1 .. Len(EXECUTOR.work) :
         i # j => EXECUTOR.work[i] # EXECUTOR.work[j]
    /\ {EXECUTOR.work[i] : i \in 1 .. Len(EXECUTOR.work)} = DOMAIN TASKS
    /\ DOMAIN EXECUTOR.at = DOMAIN TASKS

C26_TwoRuns ==
    /\ Len(EXECUTOR.work) = 2
    /\ Cardinality(Running) = 2


\* C31: the engine is called on a chunk only out of pause_check and only
\* while chunks are left; the call on the k-th chunk is followed by the
\* progress report of k / n and by nothing else, so the reported ratios rise
\* by 1 / n and the last is 1; the report writes progress
\* 10 + floor(70 * k / n), which lies in 10 .. 80; and the transcript is
\* assembled only after the report of the n-th chunk.
C31_ChunkProtocol ==
    [][/\ processed_count' \in {processed_count, processed_count + 1}
       /\ (jpc' = "transcribe" /\ jpc # "transcribe")
          => (jpc = "pause_check" /\ processed_count < total_segments)
       /\ (jpc = "transcribe" /\ jpc' # "transcribe")
          => \/ jpc' = "failed" /\ processed_count' = processed_count
             \/ jpc' = "progress" /\ processed_count' = processed_count + 1
       /\ (jpc' = "progress" /\ jpc # "progress") => jpc = "transcribe"
       /\ jpc # "transcribe" => processed_count' = processed_count
       /\ (jpc = "progress" /\ jpc' # "progress")
          => /\ 1 <= processed_count /\ processed_count <= total_segments
             /\ metadata'.progress
                  = 10 + (70 * processed_count) \div total_segments
             /\ metadata'.progress \in 10 .. 80
             /\ jpc' = IF processed_count = total_segments
                       THEN "assemble" ELSE "pause_check"
       /\ (jpc' = "assemble" /\ jpc # "assemble")
          => (jpc = "progress" /\ processed_count = total_segments)]_vars

C31_SecondOfThreeReported ==
    /\ jpc = "pause_check"
    /\ total_segments = 3
    /\ processed_count = 2
    /\ metadata.progress = 56


\* C32: when the worker has started on a queued job and written its first
\* update, before the transcription begins, the record has status
\* processing, progress 5 and the message "Preparing audio".
C32_StartsAtFive ==
    [][(wpc = "update_start" /\ wpc' = "start_simulation" /\ rpc = "idle")
       => /\ task'.status = "processing"
          /\ task'.progress = 5
          /\ task'.message = "Preparing audio"]_vars


\* what split_audio raised
SegmentationFailed ==
    exc \in {"ffmpeg returned non-zero exit status",
             "FFmpeg failed to generate audio segments"}

\* C33: a run gets past split_audio only with at least one chunk; when the
\* conversion tool failed or left no chunk, split_audio raised and the run
\* went straight to its failure: no model was asked for, no chunk was
\* transcribed, no progress beyond the start's 5 was reported before the
\* error update, and no transcript or subtitle was written.
C33_SegmentationFailureStops ==
    /\ jpc \in {"model", "pause_check", "pause_report", "transcribe",
                "progress", "assemble", "complete", "returned"}
       => (total_segments >= 1 /\ ~SegmentationFailed)
    /\ SegmentationFailed
       => /\ jpc \in {"failed", "raised"}
          /\ total_segments = 0
          /\ processed_count = 0
          /\ ~text_found
          /\ written = {}
          /\ metadata.progress = IF jpc = "raised" THEN 100 ELSE 5
          /\ metadata.message # "Transcribing audio"

C33_NoChunkRunFailed ==
    /\ exc = "FFmpeg failed to generate audio segments"
    /\ jpc = "raised"
    /\ metadata.status = "error"


\* C34: with no request in flight and the worker not between a wait and
\* the end of the update that follows it, the pause event is cleared exactly
\* when the paused flag of the record is true, and that exactly when its
\* status is paused.
C34_PausedAgrees ==
    (rpc = "idle" /\ lock = "free"
     /\ wpc \notin {"update_start", "update_finalize", "update_completed",
                    "update_error"})
    => /\ ~pause_event <=> task.paused
       /\ task.paused <=> task.status = "paused"


\* C35: at most 2 jobs are between the start and the end of
\* _run_transcription_task; every other job that is not completed or error
\* has not been taken by a pool thread; and a job not yet taken by a pool
\* thread has status queued.
C35_PoolBound ==
    /\ Cardinality(Running) <= 2
    /\ \A task_id \in DOMAIN TASKS :
         /\ (task_id \notin Running /\ TASKS[task_id].status \notin Terminal)
            => EXECUTOR.at[task_id] = "pending"
         /\ EXECUTOR.at[task_id] = "pending"
            => TASKS[task_id].status = "queued"

====
